---- MODULE Spec2Model ----
(***************************************************************************)
(* archipelago_generate_until_success: src/src/main.rs.                    *)
(*                                                                         *)
(* main resolves the target directory, creates a bounded report channel,   *)
(* measures the initial number of zips, starts one checker thread (the     *)
(* Monitor) and `jobs` worker threads inside thread::scope.  Every worker  *)
(* loops forever: spawn the generator, read its stdout to end-of-input,    *)
(* count the zips, send the count.  The checker receives the counts and    *)
(* leaves its loop on the first count above its running `max`; it then     *)
(* signals the process group with SIGINT and calls process::exit(0).       *)
(***************************************************************************)
EXTENDS Integers, Sequences, FiniteSets, TLC

\* ---------------------------------------------------------------- bounds
\* Largest ordinary worker count explored (255, the u8 maximum, is added).
MaxJobs == 2
\* Largest number of zips the directory holds.
MaxZips == 2
\* Cap on generate_multiworld calls over all workers.
MaxAttempts == 5

\* ------------------------------------------------------ program constants
\* jobs: Option<u8>
U8Modulus == 256
\* mpsc::sync_channel::<usize>(4_usize * jobs as usize)
ChannelFactor == 4

JobsChoices == (1..MaxJobs) \cup {U8Modulus - 1}
Workers == 1..MaxJobs
Counts == 0..MaxZips

VARIABLES
    debug_assertions,  \* build: debug_assert! is compiled in
    jobs,              \* args.jobs.unwrap_or(4)
    dirCount,          \* zips really in the target directory (external)
    mainpc,            \* position of the main thread
    canon,             \* result of canonicalize(): pending, ok or err
    proc,              \* the process: "running" or how it ended
    rx,                \* ziprx: "none", "alive" or "dropped"
    chan,              \* reports buffered in the sync_channel
    initial_zips,      \* the baseline
    baselineReads,     \* calls of how_many_zips made by main
    baselineRead,      \* result of that call: pending, ok or err
    monpc,             \* position of the checker thread
    max,               \* the checker's local `max`
    received,          \* reports recv_timeout has returned, in order
    successCount,      \* times the checker left its loop through `break`
    loopHi,            \* the value of `jobs + 1` in `1..jobs + 1`
    nStarted,          \* workers spawned by the scope so far
    wpc,               \* position of each worker: idle (not spawned yet),
                       \* spawn, read, send, blocked (parked in send)
    cproc,             \* each worker's `child`: none, failed (no child),
                       \* running, closed/exited (at end-of-input), killed,
                       \* dropped (handle gone at the end of the loop body)
    counted,           \* counted_zips of a worker about to send
    stdinBytes,        \* bytes that reached the stdin of the subprocess a
                       \* worker holds (0 when it holds none)
    attempts,          \* generate_multiworld calls made so far
    fault              \* scenario: none, a fault injected into worker 1
                       \* (spawn_fails, hangs), or mock (a generator that
                       \* always runs and leaves one more zip behind)

vars == <<debug_assertions, jobs, dirCount, mainpc, canon, proc, rx, chan,
          initial_zips, baselineReads, baselineRead, monpc, max, received,
          successCount, loopHi, nStarted, wpc, cproc, counted, stdinBytes,
          attempts, fault>>

mainVars == <<mainpc, canon, initial_zips, baselineReads, baselineRead, loopHi,
              nStarted>>
monVars == <<monpc, max, received, successCount>>
workerVars == <<wpc, cproc, counted, stdinBytes, attempts>>
buildVars == <<debug_assertions, jobs, fault>>

Running == proc = "running"

\* --------------------------------------------------------------- helpers
\* sync_channel bound (line 80); usize arithmetic, no wrap for a u8 jobs.
Capacity == ChannelFactor * jobs

\* `jobs + 1` on u8 (line 119): the wrapped sum, and whether it overflowed.
JobsPlusOne == (jobs + 1) % U8Modulus
JobsPlusOneOverflows == jobs + 1 >= U8Modulus

\* Number of iterations of `for _ in 1..hi`.
RangeLen(hi) == IF hi > 1 THEN hi - 1 ELSE 0

\* Where main is after `done` iterations of `for _ in 1..hi` (119-156).
AfterIteration(done, hi) ==
    IF done < RangeLen(hi) THEN "spawn_workers" ELSE "join"

\* Mutant: `unwrap_or(1)`, a failed read yields a baseline of one.
BaselineOf_One(ok) == IF ok THEN dirCount ELSE 1

\* how_many_zips(..).unwrap_or_default() (line 82).
BaselineOf(ok) == IF ok THEN dirCount ELSE 0

\* Mutant: the failed canonicalize() is not propagated.
AfterCanonicalize_Ignored(ok) == "channel"

\* `.canonicalize()?` (line 73): where main goes next.
AfterCanonicalize(ok) == IF ok THEN "channel" ELSE "returned_err"

\* Mutant: `msg.ge(&max)` instead of `msg.gt(&max)`.
MonitorStep_GreaterOrEqual(m, msg) ==
    IF debug_assertions /\ ~(m <= msg)
    THEN [pc |-> "panicked", max |-> m, success |-> FALSE]
    ELSE IF msg >= m THEN [pc |-> "kill", max |-> m, success |-> TRUE]
    ELSE [pc |-> "recv", max |-> msg, success |-> FALSE]

\* Mutant: the `break` is missing, the loop goes on after an increase.
MonitorStep_NoBreak(m, msg) ==
    IF debug_assertions /\ ~(m <= msg)
    THEN [pc |-> "panicked", max |-> m, success |-> FALSE]
    ELSE IF msg > m THEN [pc |-> "recv", max |-> m, success |-> TRUE]
    ELSE IF msg < m THEN [pc |-> "recv", max |-> msg, success |-> FALSE]
    ELSE [pc |-> "recv", max |-> m, success |-> FALSE]

\* Mutant: a smaller report does not lower `max`.
MonitorStep_NoLower(m, msg) ==
    IF debug_assertions /\ ~(m <= msg)
    THEN [pc |-> "panicked", max |-> m, success |-> FALSE]
    ELSE IF msg > m THEN [pc |-> "kill", max |-> m, success |-> TRUE]
    ELSE [pc |-> "recv", max |-> m, success |-> FALSE]

\* The checker's reaction to one received report (lines 94-106): the next
\* position of the thread, the next value of `max`, and whether the report
\* counted as an increase (lines 95-97).
MonitorStep(m, msg) ==
    IF debug_assertions /\ ~(m <= msg)
    THEN [pc |-> "panicked", max |-> m, success |-> FALSE]
    ELSE IF msg > m THEN [pc |-> "kill", max |-> m, success |-> TRUE]
    ELSE IF msg < m THEN [pc |-> "recv", max |-> msg, success |-> FALSE]
    ELSE [pc |-> "recv", max |-> m, success |-> FALSE]

\* Mutant: a timeout ends the checker's loop.
AfterTimeout_Breaks(m) == [pc |-> "kill", max |-> m]

\* The checker's reaction to recv_timeout returning Err (lines 107-109).
AfterTimeout(m) == [pc |-> "recv", max |-> m]

\* How the process ends after signal::kill(Pid::from_raw(0), SIGINT) and
\* process::exit(0) (lines 112-113).
SigintDispositions == {"default", "ignored"}
AfterSigint(disposition) ==
    IF disposition = "default" THEN "sigint" ELSE "exit0"

\* Outcomes of one generate_multiworld call followed by child.stdout.take().
SpawnOutcomes(w) ==
    IF fault = "spawn_fails" /\ w = 1 THEN {"err"}
    ELSE IF fault = "mock" THEN {"ok"}
    ELSE {"err", "no_stdout", "ok"}

\* Outcomes of stdin.write_all(b"\n") (line 203): the byte is written, or the
\* write fails because the subprocess has already closed its stdin.
WriteOutcomes == {"written", "failed"}

\* Mutant: b"\n\n" for b"\n".
StdinWrite_Two(outcome, write) ==
    IF outcome = "err" THEN 0
    ELSE IF write = "written" THEN 2 ELSE 0

\* Bytes generate_multiworld leaves in the stdin of the subprocess (lines
\* 199-209): nothing when the spawn failed (`generator?`), else the newline
\* if write_all succeeded; its result is ignored.
StdinWrite(outcome, write) ==
    IF outcome = "err" THEN 0
    ELSE IF write = "written" THEN 1 ELSE 0

\* Mutant: a failed spawn ends the worker's loop (`break` for `continue`).
AfterSpawn_ErrStops(outcome) ==
    CASE outcome = "err" -> [pc |-> "stopped", child |-> "failed"]
      [] outcome = "no_stdout" -> [pc |-> "spawn", child |-> "killed"]
      [] OTHER -> [pc |-> "read", child |-> "running"]

\* What the worker does with each outcome (lines 124-135).
AfterSpawn(outcome) ==
    CASE outcome = "err" -> [pc |-> "spawn", child |-> "failed"]
      [] outcome = "no_stdout" -> [pc |-> "spawn", child |-> "killed"]
      [] OTHER -> [pc |-> "read", child |-> "running"]

\* Mutant: the Err arm does not kill the subprocess.
AfterCount_NoKill(ok, n) ==
    IF ok THEN [pc |-> "send", child |-> "kept", counted |-> n]
    ELSE [pc |-> "spawn", child |-> "kept", counted |-> 0]

\* What the worker does with the result of count_zips_closure (140-153).
AfterCount(ok, n) ==
    IF ok THEN [pc |-> "send", child |-> "kept", counted |-> n]
    ELSE [pc |-> "spawn", child |-> "killed", counted |-> 0]

\* ------------------------------------------------------------------ Init
InitCommon ==
    /\ debug_assertions \in BOOLEAN
    /\ jobs \in JobsChoices
    /\ dirCount \in Counts
    /\ mainpc = "canonicalize"
    /\ canon = "pending"
    /\ proc = "running"
    /\ rx = "none"
    /\ chan = <<>>
    /\ initial_zips = 0
    /\ baselineReads = 0
    /\ baselineRead = "pending"
    /\ monpc = "not_started"
    /\ max = 0
    /\ received = <<>>
    /\ successCount = 0
    /\ loopHi = 0
    /\ nStarted = 0
    /\ wpc = [w \in Workers |-> "idle"]
    /\ cproc = [w \in Workers |-> "none"]
    /\ counted = [w \in Workers |-> 0]
    /\ stdinBytes = [w \in Workers |-> 0]
    /\ attempts = 0

Init == InitCommon /\ fault = "none"

\* ----------------------------------------------------------- main thread
\* line 64-73
MainCanonicalize ==
    /\ Running /\ mainpc = "canonicalize"
    /\ \E ok \in BOOLEAN:
        /\ canon' = IF ok THEN "ok" ELSE "err"
        /\ mainpc' = AfterCanonicalize(ok)
        \* main returning Err ends the process with a failure status
        /\ proc' = IF mainpc' = "returned_err" THEN "exit_failure" ELSE proc
    /\ UNCHANGED <<buildVars, dirCount, rx, chan, initial_zips, baselineReads,
                   baselineRead, loopHi, nStarted, monVars, workerVars>>

\* line 80
MainChannel ==
    /\ Running /\ mainpc = "channel"
    /\ rx' = "alive"
    /\ chan' = <<>>
    /\ mainpc' = "baseline"
    /\ UNCHANGED <<buildVars, canon, dirCount, proc, initial_zips, baselineReads,
                   baselineRead, loopHi, nStarted, monVars, workerVars>>

\* line 82
MainBaseline ==
    /\ Running /\ mainpc = "baseline"
    /\ \E ok \in BOOLEAN:
        /\ initial_zips' = BaselineOf(ok)
        /\ baselineRead' = IF ok THEN "ok" ELSE "err"
    /\ baselineReads' = baselineReads + 1
    /\ mainpc' = "spawn_monitor"
    /\ UNCHANGED <<buildVars, canon, dirCount, proc, rx, chan, loopHi, nStarted,
                   monVars, workerVars>>

\* line 88-90
MainSpawnMonitor ==
    /\ Running /\ mainpc = "spawn_monitor"
    /\ monpc' = "recv"
    /\ max' = initial_zips
    /\ mainpc' = "scope"
    /\ UNCHANGED <<buildVars, canon, dirCount, proc, rx, chan, initial_zips,
                   baselineReads,
                   baselineRead, loopHi, nStarted, received, successCount,
                   workerVars>>

\* line 118-119: the range `1..jobs + 1` is built once; with overflow checks
\* the addition panics in the main thread, without them it wraps.  An empty
\* range ends the loop at once (line 156).
MainScope ==
    /\ Running /\ mainpc = "scope"
    /\ \E overflow_checks \in BOOLEAN:
        IF JobsPlusOneOverflows /\ overflow_checks
        THEN /\ proc' = "panic"
             /\ mainpc' = "panicked"
             /\ loopHi' = loopHi
        ELSE /\ loopHi' = JobsPlusOne
             /\ mainpc' = AfterIteration(0, JobsPlusOne)
             /\ proc' = proc
    /\ UNCHANGED <<buildVars, canon, dirCount, rx, chan, initial_zips, baselineReads,
                   baselineRead, nStarted, monVars, workerVars>>

\* line 119-156: one iteration of the for loop; after the last one the scope
\* starts joining its threads
MainSpawnWorker ==
    /\ Running /\ mainpc = "spawn_workers"
    /\ nStarted' = nStarted + 1
    /\ wpc' = [wpc EXCEPT ![nStarted + 1] = "spawn"]
    /\ mainpc' = AfterIteration(nStarted + 1, loopHi)
    /\ UNCHANGED <<buildVars, canon, dirCount, proc, rx, chan, initial_zips,
                   baselineReads,
                   baselineRead, loopHi, monVars, cproc, counted, stdinBytes,
                   attempts>>

\* line 157-159: the scope returns once every worker has finished (a worker
\* never finishes); main then returns Ok(()) and the process exits.
MainJoin ==
    /\ Running /\ mainpc = "join"
    /\ \A w \in Workers: wpc[w] = "idle"
    /\ mainpc' = "returned_ok"
    /\ proc' = "main_returned"
    /\ UNCHANGED <<buildVars, canon, dirCount, rx, chan, initial_zips, baselineReads,
                   baselineRead, loopHi, nStarted, monVars, workerVars>>

\* -------------------------------------------------------- checker thread
\* line 92-106: recv_timeout returned Ok(msg)
MonitorRecv ==
    /\ Running /\ monpc = "recv" /\ rx = "alive" /\ chan # <<>>
    /\ LET msg == Head(chan)
           r == MonitorStep(max, msg)
       IN /\ received' = Append(received, msg)
          /\ monpc' = r.pc
          /\ max' = r.max
          /\ successCount' = IF r.success THEN successCount + 1
                             ELSE successCount
          \* a panic unwinds the closure and drops ziprx with its buffer
          /\ rx' = IF r.pc = "panicked" THEN "dropped" ELSE rx
          /\ chan' = IF r.pc = "panicked" THEN <<>> ELSE Tail(chan)
    /\ UNCHANGED <<buildVars, dirCount, proc, mainVars, workerVars>>

\* line 107-109: recv_timeout returned Err
MonitorTimeout ==
    /\ Running /\ monpc = "recv" /\ rx = "alive" /\ chan = <<>>
    /\ LET r == AfterTimeout(max)
       IN monpc' = r.pc /\ max' = r.max
    /\ UNCHANGED <<buildVars, dirCount, proc, rx, chan, mainVars, received,
                   successCount, workerVars>>

\* line 111-113: SIGINT to the own process group, then process::exit(0).
\* With the default disposition the signal ends the process before exit is
\* reached; with SIGINT ignored (inherited SIG_IGN) exit(0) runs.
MonitorTerminate ==
    /\ Running /\ monpc = "kill"
    /\ \E disposition \in SigintDispositions:
        proc' = AfterSigint(disposition)
    /\ monpc' = "gone"
    /\ UNCHANGED <<buildVars, dirCount, rx, chan, mainVars, max, received,
                   successCount, workerVars>>

\* --------------------------------------------------------------- workers
\* line 124-135: generate_multiworld and child.stdout.take()
WorkerSpawn(w) ==
    /\ Running /\ wpc[w] = "spawn"
    /\ attempts < MaxAttempts
    /\ attempts' = attempts + 1
    /\ \E outcome \in SpawnOutcomes(w), write \in WriteOutcomes:
        LET r == AfterSpawn(outcome)
        IN /\ wpc' = [wpc EXCEPT ![w] = r.pc]
           /\ cproc' = [cproc EXCEPT ![w] = r.child]
           \* a subprocess killed at once is forgotten with its handle
           /\ stdinBytes' = [stdinBytes EXCEPT ![w] =
                                 IF r.child = "killed" THEN 0
                                 ELSE StdinWrite(outcome, write)]
    /\ UNCHANGED <<buildVars, dirCount, proc, rx, chan, mainVars, monVars,
                   counted>>

\* line 138-153: read_to_string returns once the subprocess has closed its
\* stdout (nothing waits for its exit: `at` is what the subprocess is doing
\* at that moment), then count_zips_closure() runs.  Nothing but the
\* directory can change between the two, so they are one step.  A subprocess
\* that never closes its stdout leaves the worker here for ever.
WorkerReadCount(w) ==
    /\ Running /\ wpc[w] = "read"
    /\ ~(fault = "hangs" /\ w = 1)
    /\ \E ok \in BOOLEAN, at \in {"closed", "exited"}:
        LET r == AfterCount(ok, dirCount)
        IN /\ wpc' = [wpc EXCEPT ![w] = r.pc]
           /\ cproc' = [cproc EXCEPT ![w] =
                            IF r.child = "kept" THEN at ELSE r.child]
           /\ counted' = [counted EXCEPT ![w] = r.counted]
           /\ stdinBytes' = [stdinBytes EXCEPT ![w] =
                                 IF r.child = "kept" THEN @ ELSE 0]
    /\ UNCHANGED <<buildVars, dirCount, proc, rx, chan, mainVars, monVars,
                   attempts>>

\* Mutant: try_send for send, a full buffer is an error.
SendOutcome_TrySend(receiver, len, cap) ==
    IF receiver = "dropped" THEN "err"
    ELSE IF len < cap THEN "delivered"
    ELSE "err"

\* What ziptx.send does for a sender (line 145), given the receiver and the
\* room in the buffer: deliver the report, fail at once because the
\* receiver is gone, or park the thread.
SendOutcome(receiver, len, cap) ==
    IF receiver = "dropped" THEN "err"
    ELSE IF len < cap THEN "delivered"
    ELSE "parked"

\* Mutant: the handle outlives the loop body.
ChildAfterSend_Kept(o, c) == c

\* The `child` binding once send has returned: the loop body ends (line
\* 154) and the handle is dropped; a parked sender still holds it.
ChildAfterSend(o, c) == IF o = "parked" THEN c ELSE "dropped"

\* line 145: ziptx.send(counted_zips) into the bounded channel, called
\* ("send") or woken up again after parking on a full buffer ("blocked").
\* The result is ignored and the loop body ends: `child` goes out of scope,
\* neither waited for nor killed.
WorkerSend(w) ==
    /\ Running /\ wpc[w] \in {"send", "blocked"}
    /\ LET o == SendOutcome(rx, Len(chan), Capacity)
       IN /\ o = "parked" => wpc[w] = "send"
          /\ chan' = IF o = "delivered" THEN Append(chan, counted[w])
                     ELSE chan
          /\ wpc' = [wpc EXCEPT ![w] =
                         IF o = "parked" THEN "blocked" ELSE "spawn"]
          /\ counted' = [counted EXCEPT ![w] =
                             IF o = "parked" THEN @ ELSE 0]
          /\ cproc' = [cproc EXCEPT ![w] = ChildAfterSend(o, @)]
          /\ stdinBytes' = [stdinBytes EXCEPT ![w] =
                                IF o = "parked" THEN @ ELSE 0]
    /\ UNCHANGED <<buildVars, dirCount, proc, rx, mainVars, monVars,
                   attempts>>

\* ----------------------------------------------------------- environment
\* the generator or anything else adds a zip to the directory
DirGrow ==
    /\ Running /\ dirCount < MaxZips
    /\ dirCount' = dirCount + 1
    /\ UNCHANGED <<buildVars, proc, rx, chan, mainVars, monVars, workerVars>>

\* external cleanup removes a zip
DirShrink ==
    /\ Running /\ dirCount > 0
    /\ dirCount' = dirCount - 1
    /\ UNCHANGED <<buildVars, proc, rx, chan, mainVars, monVars, workerVars>>

Next ==
    \/ MainCanonicalize
    \/ MainChannel
    \/ MainBaseline
    \/ MainSpawnMonitor
    \/ MainScope
    \/ MainSpawnWorker
    \/ MainJoin
    \/ MonitorRecv
    \/ MonitorTimeout
    \/ MonitorTerminate
    \/ \E w \in Workers: WorkerSpawn(w)
    \/ \E w \in Workers: WorkerReadCount(w)
    \/ \E w \in Workers: WorkerSend(w)
    \/ DirGrow
    \/ DirShrink

Spec == Init /\ [][Next]_vars

\* A worker 1 whose generator never spawns, or whose subprocess never closes
\* its stdout, beside healthy workers.  The checker thread is an OS thread
\* of its own and recv_timeout returns a buffered report, so its steps are
\* weakly fair.
InitFaulty == InitCommon /\ fault \in {"spawn_fails", "hangs"}
SpecFaulty ==
    /\ InitFaulty /\ [][Next]_vars
    /\ WF_vars(MonitorRecv) /\ WF_vars(MonitorTerminate)

\* A generator that always starts, returns at once and leaves one more zip in
\* the directory, which nothing else touches: every count is above every
\* earlier one.  line 136-147 with that generator.
MockReadCount(w) ==
    /\ Running /\ wpc[w] = "read"
    /\ dirCount < MaxZips
    /\ dirCount' = dirCount + 1
    /\ \E at \in {"closed", "exited"}:
        LET r == AfterCount(TRUE, dirCount + 1)
        IN /\ wpc' = [wpc EXCEPT ![w] = r.pc]
           /\ cproc' = [cproc EXCEPT ![w] =
                            IF r.child = "kept" THEN at ELSE r.child]
           /\ counted' = [counted EXCEPT ![w] = r.counted]
    /\ UNCHANGED <<buildVars, proc, rx, chan, mainVars, monVars, stdinBytes,
                   attempts>>

InitLive == InitCommon /\ fault = "mock" /\ dirCount < MaxZips

NextLive ==
    \/ MainCanonicalize
    \/ MainChannel
    \/ MainBaseline
    \/ MainSpawnMonitor
    \/ MainScope
    \/ MainSpawnWorker
    \/ MainJoin
    \/ MonitorRecv
    \/ MonitorTimeout
    \/ MonitorTerminate
    \/ \E w \in Workers: WorkerSpawn(w)
    \/ \E w \in Workers: MockReadCount(w)
    \/ \E w \in Workers: WorkerSend(w)

\* Main, the checker and every worker are OS threads: each of their steps is
\* weakly fair.
SpecLive ==
    /\ InitLive /\ [][NextLive]_vars
    /\ WF_vars(MainCanonicalize) /\ WF_vars(MainChannel)
    /\ WF_vars(MainBaseline) /\ WF_vars(MainSpawnMonitor)
    /\ WF_vars(MainScope) /\ WF_vars(MainSpawnWorker) /\ WF_vars(MainJoin)
    /\ WF_vars(MonitorRecv) /\ WF_vars(MonitorTerminate)
    /\ \A w \in Workers:
           /\ WF_vars(WorkerSpawn(w))
           /\ WF_vars(MockReadCount(w))
           /\ WF_vars(WorkerSend(w))

\* The program beside a directory that never gains a zip: zips are only
\* removed.
NextNoGrowth ==
    \/ MainCanonicalize
    \/ MainChannel
    \/ MainBaseline
    \/ MainSpawnMonitor
    \/ MainScope
    \/ MainSpawnWorker
    \/ MainJoin
    \/ MonitorRecv
    \/ MonitorTimeout
    \/ MonitorTerminate
    \/ \E w \in Workers: WorkerSpawn(w)
    \/ \E w \in Workers: WorkerReadCount(w)
    \/ \E w \in Workers: WorkerSend(w)
    \/ DirShrink

SpecNoGrowth == Init /\ [][NextNoGrowth]_vars

\* ================================================================ claims
\* A step in which recv_timeout returns a report.
RecvStep == monpc = "recv" /\ received' # received

\* The process ended because the checker saw an increase.
EndedBySuccess == proc \in {"sigint", "exit0"}

\* C1: for every worker count N >= 1 the process ends only after the checker
\* received a report above its running maximum (a failed directory resolution
\* apart), and main never returns normally.
C1_TerminatesOnlyOnSuccess ==
    /\ mainpc # "returned_ok"
    /\ proc \notin {"running", "exit_failure"} =>
           (EndedBySuccess /\ successCount = 1)

\* C2: a report below `max` sets `max` to the report, triggers no success and
\* leaves the checker in its loop; `max` changes on no other event.
C2_LoweringKeepsMonitorAlive ==
    [][/\ (RecvStep /\ Head(chan) < max) =>
              (max' = Head(chan) /\ monpc' = "recv"
               /\ successCount' = successCount)
       /\ (monpc = "recv" /\ max' # max) => (RecvStep /\ Head(chan) < max)
      ]_vars

\* The tracked value after a report r, as C3 defines it: lowered by every
\* smaller report.
Lower(t, r) == IF r < t THEN r ELSE t
RECURSIVE Tracked(_, _)
Tracked(b, s) ==
    IF s = <<>> THEN b
    ELSE Lower(Tracked(b, SubSeq(s, 1, Len(s) - 1)), s[Len(s)])
\* The reports of s that are above the value tracked when they arrive.
Hits(b, s) == {i \in 1..Len(s): s[i] > Tracked(b, SubSeq(s, 1, i - 1))}

C4_NoSpawnAfterSuccess ==
    [][successCount > 0 => attempts' = attempts]_vars

\* C5: success is triggered at most once; after it the checker receives no
\* further report, does not panic, and the process ends at most once.
C5_SuccessAtMostOnce ==
    [][/\ successCount' <= 1
       /\ successCount = 1 =>
              /\ received' = received /\ max' = max
              /\ successCount' = 1
              /\ monpc' \in {"kill", "gone"}
       /\ proc # "running" => proc' = proc
      ]_vars

\* The process ended on the first of two qualifying reports; the second is
\* still queued.
C5_Witness ==
    /\ EndedBySuccess /\ successCount = 1
    /\ chan # <<>> /\ Head(chan) > max

\* C6: after detecting success the checker's termination sequence always
\* ends in a normal exit with status 0.
C6_SuccessExitsZero ==
    (successCount = 1 /\ proc # "running") => proc = "exit0"

\* C7: when the target directory cannot be resolved the program exits with a
\* failure status before the channel exists, before the baseline is
\* measured and before the checker or any worker starts; no generator is
\* ever spawned.
C7_StartupFailureBeforeAnything ==
    canon = "err" =>
        /\ proc = "exit_failure" /\ mainpc = "returned_err"
        /\ rx = "none" /\ baselineReads = 0
        /\ monpc = "not_started" /\ nStarted = 0
        /\ attempts = 0
        /\ \A w \in Workers: wpc[w] = "idle" /\ cproc[w] = "none"

C7_Witness == canon = "err" /\ proc = "exit_failure"

\* C8: the channel never holds more than 4 x jobs reports, and a worker
\* that reports while the channel is full blocks: as long as the channel is
\* full it keeps its report and does not go on to spawn, and it leaves the
\* parked state only after the checker has received a report.
C8_FullChannelBlocks ==
    [][/\ Len(chan') <= Capacity
       /\ \A w \in Workers:
              /\ (wpc[w] \in {"send", "blocked"} /\ rx = "alive"
                      /\ Len(chan) >= Capacity) =>
                     /\ wpc'[w] \in {"send", "blocked"}
                     /\ counted'[w] = counted[w]
              /\ (wpc[w] = "blocked" /\ wpc'[w] # "blocked") =>
                     received # <<>>
      ]_vars

\* A worker is parked on a full channel.
C8_Witness ==
    /\ Running /\ rx = "alive" /\ Len(chan) = Capacity
    /\ \E w \in Workers: wpc[w] = "blocked"

\* No thread but w and nothing outside the workers moved.
OnlyWorkerMoved(w) ==
    /\ UNCHANGED <<dirCount, proc, rx, mainVars, monVars>>
    /\ \A v \in Workers \ {w}:
           wpc'[v] = wpc[v] /\ cproc'[v] = cproc[v]

\* A step in which an iteration of w fails: generate_multiworld or the
\* stdout handle (w stays at the top of the loop after a call), or the count
\* (w leaves the read without a count to send).
IterationFails(w) ==
    \/ /\ wpc[w] = "spawn" /\ wpc'[w] # "read"
       /\ attempts' = attempts + 1 /\ OnlyWorkerMoved(w)
    \/ /\ wpc[w] = "read" /\ wpc'[w] \notin {"read", "send"}

\* C9: a failed iteration (spawn failure, missing stdout, count failure)
\* ends neither the worker nor the pool: no report is sent, a subprocess that
\* was started is killed, and the worker is back at the top of its loop.
C9_IterationFailureRestartsLoop ==
    [][\A w \in Workers:
           IterationFails(w) =>
               /\ wpc'[w] = "spawn"
               /\ chan' = chan
               /\ proc' = "running"
               /\ cproc'[w] \notin {"running", "closed", "exited"}
               /\ wpc[w] = "read" => cproc'[w] = "killed"
      ]_vars

\* Both kinds of failure have happened, reports still got through and the
\* pool is running.
C9_Witness ==
    /\ Running /\ received # <<>>
    /\ \E w, v \in Workers:
           /\ wpc[w] = "spawn" /\ cproc[w] = "killed"
           /\ wpc[v] = "spawn" /\ cproc[v] = "failed"

\* C10: a worker whose spawn always fails, or whose subprocess hangs, stays
\* in its loop (retrying, or stalled in the read) without ending the pool,
\* and a report above `max` at the head of the channel still ends the
\* process through the checker.
C10_FaultyWorkerIsolated ==
    /\ [](wpc[1] # "idle" =>
              /\ proc \in {"running", "sigint", "exit0"}
              /\ fault = "spawn_fails" =>
                     (wpc[1] = "spawn" /\ cproc[1] \in {"none", "failed"})
              /\ fault = "hangs" =>
                     \/ wpc[1] = "spawn" /\ cproc[1] \in {"none", "failed", "killed"}
                     \/ wpc[1] = "read" /\ cproc[1] = "running")
    /\ (wpc[1] # "idle" /\ monpc = "recv" /\ rx = "alive"
            /\ chan # <<>> /\ Head(chan) > max)
           ~> EndedBySuccess

\* Worker 1 has only ever failed to spawn, and the process ended on another
\* worker's report.
C10_Witness ==
    /\ EndedBySuccess /\ nStarted >= 2
    /\ fault = "spawn_fails" /\ cproc[1] = "failed"


\* C11: with a generator that returns at once and counts that only go up,
\* and every thread scheduled fairly, a pool whose directory resolved ends
\* by the checker's success.
C11_MockedPoolSucceeds == (mainpc = "channel") ~> EndedBySuccess

\* The same for the worker counts whose `jobs + 1` does not overflow.
C11_SucceedsBelowU8Max ==
    (mainpc = "channel" /\ ~JobsPlusOneOverflows) ~> EndedBySuccess

\* C12: main measures the baseline exactly once, before the checker and any
\* worker exist; a failed read gives a baseline of 0 and does not stop
\* main, and the checker's `max` starts at the baseline.
C12_BaselineOnceBeforeWorkers ==
    /\ baselineReads <= 1
    /\ (baselineReads = 0) <=> (baselineRead = "pending")
    /\ (monpc # "not_started" \/ nStarted > 0 \/ attempts > 0) =>
           baselineReads = 1
    /\ baselineRead = "err" =>
           (initial_zips = 0 /\ proc # "exit_failure"
            /\ mainpc \notin {"baseline", "returned_err"})
    /\ (monpc = "recv" /\ received = <<>>) => max = initial_zips

\* The pool runs after a failed baseline read of a directory that holds zips.
C12_Witness ==
    /\ baselineRead = "err" /\ dirCount > 0
    /\ monpc = "recv" /\ max = 0 /\ received = <<>>
    /\ nStarted = jobs /\ \E w \in Workers: wpc[w] = "send"

\* The largest of the baseline and the reports seen so far.
RECURSIVE MaxSeen(_, _)
MaxSeen(b, s) ==
    IF s = <<>> THEN b
    ELSE LET m == MaxSeen(b, SubSeq(s, 1, Len(s) - 1))
         IN IF s[Len(s)] > m THEN s[Len(s)] ELSE m

C14_StartsJobsWorkers ==
    /\ mainpc # "panicked"
    /\ mainpc \in {"spawn_workers", "join", "returned_ok"} =>
           (RangeLen(loopHi) = jobs /\ monpc # "not_started")
    /\ mainpc \in {"join", "returned_ok"} => nStarted = jobs

\* C15: a worker that has counted the zips and is sending its report has a
\* subprocess that reached end-of-input on its stdout and has exited.
C15_CountAfterExit ==
    \A w \in Workers:
        wpc[w] \in {"send", "blocked"} => cproc[w] = "exited"

\* C16: a step of the checker's loop that receives no report (a timeout)
\* changes neither `max` nor the success count and leaves the checker in
\* its loop; the checker leaves the loop towards SIGINT/exit only by
\* receiving a report above `max`, and only the checker in that position
\* ends the process with a success status.
C16_TimeoutIsNoOp ==
    [][/\ (monpc = "recv" /\ received' = received) =>
              (monpc' = "recv" /\ max' = max
               /\ successCount' = successCount /\ rx' = rx)
       /\ (monpc # "kill" /\ monpc' = "kill") =>
              (RecvStep /\ Head(chan) > max)
       /\ (proc' # proc /\ proc' \in {"sigint", "exit0"}) =>
              (monpc = "kill" /\ successCount = 1)
      ]_vars

\* The checker waits on an empty channel after it has lowered `max`: its
\* next step is a timeout, after which it is in this very state again.
C16_Witness ==
    /\ Running /\ monpc = "recv" /\ rx = "alive" /\ chan = <<>>
    /\ received # <<>> /\ max < initial_zips /\ successCount = 0

\* C17 as stated: a worker that starts reading the output of its subprocess
\* has a subprocess with exactly one newline in its stdin, and a failed
\* spawn leaves no subprocess and no byte.
C17_ExactlyOneNewline ==
    \A w \in Workers:
        /\ wpc[w] = "read" => stdinBytes[w] = 1
        /\ cproc[w] = "failed" => stdinBytes[w] = 0

\* C17 amended: at most one newline reaches the stdin of a subprocess, and
\* only in the step that spawns it, before the worker reads; the write may
\* fail and leave none.  A failed spawn leaves no subprocess and no byte,
\* and nothing is written while the worker reads, counts or sends.
C17_AtMostOneNewlineAtSpawn ==
    [][\A w \in Workers:
          /\ stdinBytes'[w] <= 1
          /\ stdinBytes'[w] > stdinBytes[w] =>
                 (wpc[w] = "spawn" /\ wpc'[w] = "read"
                  /\ cproc'[w] = "running" /\ attempts' = attempts + 1)
          /\ cproc'[w] = "failed" => stdinBytes'[w] = 0
          /\ wpc[w] \in {"read", "send", "blocked"} =>
                 stdinBytes'[w] <= stdinBytes[w]
      ]_vars

\* Two workers reading: the newline reached one subprocess and the write to
\* the other failed.
C17_Witness ==
    \E w, v \in Workers:
        /\ wpc[w] = "read" /\ cproc[w] = "running" /\ stdinBytes[w] = 1
        /\ wpc[v] = "read" /\ cproc[v] = "running" /\ stdinBytes[v] = 0

\* The states of `child` in which the worker holds a handle of a spawned
\* subprocess.
HeldHandles == {"running", "closed", "exited"}

\* C18: a worker about to call generate_multiworld holds no handle of an
\* earlier subprocess, whichever way the previous iteration ended; it holds
\* one exactly while it reads, counts and sends.
C18_NoSpawnWhileHolding ==
    \A w \in Workers:
        /\ wpc[w] \in {"idle", "spawn"} => cproc[w] \notin HeldHandles
        /\ wpc[w] \in {"read", "send", "blocked"} => cproc[w] \in HeldHandles

\* A single worker in its third iteration, after a delivered report, holding
\* the handle of its newest subprocess only.
C18_Witness ==
    /\ jobs = 1 /\ attempts = 3 /\ wpc[1] = "read" /\ cproc[1] = "running"
    /\ Len(chan) + Len(received) >= 1

\* C19: the checker triggers success only if the number of zips in the
\* directory went up at some moment after the baseline was measured; beside
\* a directory that never gains a zip it therefore never triggers success.
C19_NoSuccessWithoutIncrease == successCount = 0

\* The same when the baseline read succeeded.
C19_NoSuccessWithoutIncreaseAfterGoodBaseline ==
    baselineRead = "ok" => successCount = 0
====
